---- MODULE Spec2Model ----
(***************************************************************************)
(* Model of the Hours-of-Service rule engine of backend/trips:             *)
(* HOSCalculator.calculate_trip with its two schedule builders, the totals *)
(* aggregator _calculate_daily_totals and the verifier check_compliance.   *)
(* Around it, the request path of TripViewSet.create: the serializer's     *)
(* validation, RoutingService.get_route_for_trip, the call of              *)
(* calculate_trip and the Response.                                        *)
(*                                                                         *)
(* Numbers.  The source computes with Python floats.  The model computes   *)
(* with exact fixed-point numbers: every quantity (miles, hours) is an     *)
(* integer count of 1/Scale units, and Scale is chosen so that every       *)
(* division the builders perform on the modelled inputs is exact.  Float   *)
(* rounding is therefore outside the model.                                *)
(*                                                                         *)
(* Strings.  location, remarks and the formatted number inside a failure   *)
(* message carry no control flow and are left out; description is kept to  *)
(* identify a segment.  A date is the number of days after the day         *)
(* datetime.now() reports.                                                 *)
(***************************************************************************)
EXTENDS Integers, Sequences, FiniteSets, TLC

\* ---------------------------------------------------------------- numbers
\* Fixed-point scale: 100800 = 2^6 * 3^2 * 5^2 * 7 units per mile and per hour.
\* distance/60/days/2 is exact for whole miles and up to 8 days.
Scale == 64 * 9 * 25 * 7

Num(n) == n * Scale
Half == Scale \div 2
Quarter == Scale \div 4

\* ---------------------------------------------------------- HOS constants
MAX_DRIVING_HOURS == 11
MAX_DRIVING_WINDOW == 14
BREAK_REQUIRED_AFTER_DRIVING == 8
MIN_BREAK_DURATION == Half
MAX_CYCLE_HOURS == 70
AVERAGE_SPEED_MPH == 60
PICKUP_DROPOFF_TIME == Num(1)
FUEL_STOP_INTERVAL_MILES == 1000
FUEL_STOP_DURATION == Half

\* ------------------------------------------------------------ model bounds
\* Distances are DistStep, 2*DistStep, ..., MaxDistSteps*DistStep whole miles.
DistStep == 10
MaxDistSteps == 200
\* current_cycle_hours ranges over the multiples of CycleStep hours in [0,70].
CycleStep == 1
\* Hand-built timelines given to check_compliance have at most MaxLen segments.
MaxLen == 3
\* Those that hold an entry of an unknown status have at most MaxUnknownLen.
MaxUnknownLen == 2

Statuses == {"OFF_DUTY", "SLEEPER_BERTH", "DRIVING", "ON_DUTY"}

Min(a, b) == IF a <= b THEN a ELSE b

\* math.ceil(a / b) for a >= 0, b > 0
Ceil(a, b) == (a + b - 1) \div b

\* One timeline entry, as the builders append it.
Entry(status, start, dur, desc) ==
    [status |-> status, start_hour |-> start, end_hour |-> start + dur,
     duration |-> dur, description |-> desc]

\* Mutant: the clock was not advanced past the entry before the closing one,
\* so the closing entry starts half an hour early.
LastEntryEarly(current_hour, desc) ==
    [status |-> "OFF_DUTY", start_hour |-> current_hour - Half, end_hour |-> Num(24),
     duration |-> Num(24) - current_hour, description |-> desc]

\* The closing entry of a day: from current_hour to 24.
LastEntry(current_hour, desc) ==
    [status |-> "OFF_DUTY", start_hour |-> current_hour, end_hour |-> Num(24),
     duration |-> Num(24) - current_hour, description |-> desc]

\* ------------------------------------------------------ totals aggregator
ZeroTotals == [off_duty |-> 0, sleeper_berth |-> 0, driving |-> 0, on_duty |-> 0]

\* Mutant: the ON_DUTY branch adds to the driving total.
AddEntryOnDutyAsDriving(totals, entry) ==
    IF entry.status = "OFF_DUTY"
      THEN [totals EXCEPT !.off_duty = @ + entry.duration]
    ELSE IF entry.status = "SLEEPER_BERTH"
      THEN [totals EXCEPT !.sleeper_berth = @ + entry.duration]
    ELSE IF entry.status = "DRIVING"
      THEN [totals EXCEPT !.driving = @ + entry.duration]
    ELSE IF entry.status = "ON_DUTY"
      THEN [totals EXCEPT !.driving = @ + entry.duration]
    ELSE totals

\* One pass of the loop body of _calculate_daily_totals.
AddEntry(totals, entry) ==
    IF entry.status = "OFF_DUTY"
      THEN [totals EXCEPT !.off_duty = @ + entry.duration]
    ELSE IF entry.status = "SLEEPER_BERTH"
      THEN [totals EXCEPT !.sleeper_berth = @ + entry.duration]
    ELSE IF entry.status = "DRIVING"
      THEN [totals EXCEPT !.driving = @ + entry.duration]
    ELSE IF entry.status = "ON_DUTY"
      THEN [totals EXCEPT !.on_duty = @ + entry.duration]
    ELSE totals

RECURSIVE TotalsLoop(_, _, _)
TotalsLoop(timeline, i, totals) ==
    IF i > Len(timeline) THEN totals
    ELSE TotalsLoop(timeline, i + 1, AddEntry(totals, timeline[i]))

calculate_daily_totals(timeline) == TotalsLoop(timeline, 1, ZeroTotals)

\* --------------------------------------------------- single-day builder
\* Mutant: a break is scheduled only from the second needed break on.
takes_break_late(breaks_needed) == breaks_needed > 1

\* `if breaks_needed > 0`
takes_break(breaks_needed) == breaks_needed > 0

\* drive_before_break of the single-day builder
single_drive_before_break(time_to_dropoff) ==
    Min(Num(BREAK_REQUIRED_AFTER_DRIVING), time_to_dropoff \div 2)

generate_single_day_trip(distance_miles, driving_hours, total_duty_hours, num_fuel_stops, breaks_needed, today) ==
    LET e1 == Entry("OFF_DUTY", 0, Num(6), "Off duty - rest before trip")
        h1 == Num(6)
        distance_to_pickup == distance_miles \div 5
        time_to_pickup == distance_to_pickup \div AVERAGE_SPEED_MPH
        e2 == Entry("ON_DUTY", h1, Half, "Pre-trip inspection, paperwork")
        h2 == h1 + Half
        e3 == Entry("DRIVING", h2, time_to_pickup, "Driving to pickup location")
        h3 == h2 + time_to_pickup
        e4 == Entry("ON_DUTY", h3, PICKUP_DROPOFF_TIME, "Loading cargo, paperwork")
        h4 == h3 + PICKUP_DROPOFF_TIME
        distance_to_dropoff == (distance_miles * 4) \div 5
        time_to_dropoff == distance_to_dropoff \div AVERAGE_SPEED_MPH
        drive_before_break == single_drive_before_break(time_to_dropoff)
        remaining_drive == time_to_dropoff - drive_before_break
        legs == IF takes_break(breaks_needed)
                  THEN << Entry("DRIVING", h4, drive_before_break, "Driving to dropoff"),
                          Entry("ON_DUTY", h4 + drive_before_break, MIN_BREAK_DURATION,
                                "Fuel stop (30-min break)"),
                          Entry("DRIVING", h4 + drive_before_break + MIN_BREAK_DURATION,
                                remaining_drive, "Driving to dropoff") >>
                  ELSE << Entry("DRIVING", h4, time_to_dropoff, "Driving to dropoff") >>
        h5 == IF takes_break(breaks_needed)
                THEN h4 + drive_before_break + MIN_BREAK_DURATION + remaining_drive
                ELSE h4 + time_to_dropoff
        e6 == Entry("ON_DUTY", h5, PICKUP_DROPOFF_TIME, "Unloading cargo, paperwork")
        h6 == h5 + PICKUP_DROPOFF_TIME
        e7 == Entry("ON_DUTY", h6, Half, "Post-trip inspection, log completion")
        h7 == h6 + Half
        e8 == LastEntry(h7, "Off duty")
        timeline == << e1, e2, e3, e4 >> \o legs \o << e6, e7, e8 >>
        totals == calculate_daily_totals(timeline)
    IN  [num_days |-> 1,
         total_distance_miles |-> distance_miles,
         total_driving_hours |-> totals.driving,
         total_on_duty_hours |-> totals.on_duty + totals.driving,
         is_compliant |-> TRUE,
         compliance_notes |-> "Trip complies with all HOS regulations",
         log_sheets |-> << [day_number |-> 1,
                            date |-> today,
                            timeline |-> timeline,
                            totals |-> totals,
                            total_miles |-> distance_miles] >>]

\* ---------------------------------------------------- multi-day builder
\* drive_before_break and remaining of the multi-day builder
multi_drive_before_break(daily_driving) == Min(Num(8), daily_driving \div 2)

\* Mutant: the second driving leg is not capped at 3 hours.
multi_remaining_uncapped(daily_driving, drive_before_break) ==
    daily_driving - drive_before_break

multi_remaining(daily_driving, drive_before_break) ==
    Min(Num(3), daily_driving - drive_before_break)

\* The timeline of loop iteration `day` (0-based) of _generate_multi_day_trip.
MultiDayTimeline(day, days_needed, daily_driving) ==
    LET is_first_day == (day = 0)
        is_last_day == (day = days_needed - 1)
        e1 == Entry("OFF_DUTY", 0, Num(6), "Off duty - 10-hour rest")
        h1 == Num(6)
        e2 == Entry("ON_DUTY", h1, Half, "Pre-trip inspection")
        h2 == h1 + Half
        pickup == IF is_first_day
                    THEN << Entry("DRIVING", h2, Num(1), "Drive to pickup"),
                            Entry("ON_DUTY", h2 + Num(1), Num(1), "Loading") >>
                    ELSE << >>
        h3 == IF is_first_day THEN h2 + Num(1) + Num(1) ELSE h2
        drive_before_break == multi_drive_before_break(daily_driving)
        e4 == Entry("DRIVING", h3, drive_before_break, "Driving")
        h4 == h3 + drive_before_break
        e5 == Entry("ON_DUTY", h4, Half, "Break/fuel")
        h5 == h4 + Half
        remaining == multi_remaining(daily_driving, drive_before_break)
        e6 == Entry("DRIVING", h5, remaining, "Driving")
        h6 == h5 + remaining
        dropoff == IF is_last_day
                     THEN << Entry("ON_DUTY", h6, Num(1), "Unloading") >>
                     ELSE << >>
        h7 == IF is_last_day THEN h6 + Num(1) ELSE h6
        e8 == LastEntry(h7, "Off duty - 10-hour rest")
    IN  << e1, e2 >> \o pickup \o << e4, e5, e6 >> \o dropoff \o << e8 >>

\* Mutant: the date is stamped with the 1-based day number as its offset.
MultiDaySheetDateOffByOne(day, days_needed, miles_per_day, current_date) ==
    LET daily_miles == miles_per_day
        daily_driving == daily_miles \div AVERAGE_SPEED_MPH
        timeline == MultiDayTimeline(day, days_needed, daily_driving)
    IN  [day_number |-> day + 1,
         date |-> current_date + day + 1,
         timeline |-> timeline,
         totals |-> calculate_daily_totals(timeline),
         total_miles |-> daily_miles]

\* The log sheet appended by loop iteration `day`.
MultiDaySheet(day, days_needed, miles_per_day, current_date) ==
    LET daily_miles == miles_per_day
        daily_driving == daily_miles \div AVERAGE_SPEED_MPH
        timeline == MultiDayTimeline(day, days_needed, daily_driving)
    IN  [day_number |-> day + 1,
         date |-> current_date + day,
         timeline |-> timeline,
         totals |-> calculate_daily_totals(timeline),
         total_miles |-> daily_miles]

\* Mutant: the trip-level on-duty figure leaves driving out, as each day's
\* on_duty total does.
sheet_on_duty_without_driving(sheet) == sheet.totals.on_duty

\* `sheet["totals"]["driving"] + sheet["totals"]["on_duty"]`
sheet_on_duty(sheet) == sheet.totals.driving + sheet.totals.on_duty

RECURSIVE SumSheets(_, _, _)
\* sum(f(sheet) for sheet in log_sheets), f = driving or driving + on_duty
SumSheets(log_sheets, i, with_on_duty) ==
    IF i > Len(log_sheets) THEN 0
    ELSE (IF with_on_duty THEN sheet_on_duty(log_sheets[i])
                          ELSE log_sheets[i].totals.driving)
         + SumSheets(log_sheets, i + 1, with_on_duty)

days_needed_for(driving_hours) == Ceil(driving_hours, Num(MAX_DRIVING_HOURS))

generate_multi_day_trip(distance_miles, driving_hours, today) ==
    LET days_needed == days_needed_for(driving_hours)
        miles_per_day == distance_miles \div days_needed
        log_sheets == [d \in 1..days_needed |->
                          MultiDaySheet(d - 1, days_needed, miles_per_day, today)]
    IN  [num_days |-> days_needed,
         total_distance_miles |-> distance_miles,
         total_driving_hours |-> SumSheets(log_sheets, 1, FALSE),
         total_on_duty_hours |-> SumSheets(log_sheets, 1, TRUE),
         is_compliant |-> TRUE,
         compliance_notes |-> "Multi-day trip - days required for HOS compliance",
         log_sheets |-> log_sheets]

\* ------------------------------------------------------------- scheduler
\* math.floor(driving_hours / BREAK_REQUIRED_AFTER_DRIVING)
breaks_needed_for(driving_hours) == driving_hours \div Num(BREAK_REQUIRED_AFTER_DRIVING)

\* Mutant: the cycle-hours condition is left out of the feasibility test.
single_day_possible_no_cycle(driving_hours, total_duty_hours, current_cycle_hours) ==
    /\ driving_hours <= Num(MAX_DRIVING_HOURS)
    /\ total_duty_hours <= Num(MAX_DRIVING_WINDOW)

single_day_possible(driving_hours, total_duty_hours, current_cycle_hours) ==
    /\ driving_hours <= Num(MAX_DRIVING_HOURS)
    /\ total_duty_hours <= Num(MAX_DRIVING_WINDOW)
    /\ current_cycle_hours + total_duty_hours <= Num(MAX_CYCLE_HOURS)

calculate_trip(distance_miles, current_cycle_hours, today) ==
    LET driving_hours == distance_miles \div AVERAGE_SPEED_MPH
        num_fuel_stops == distance_miles \div Num(FUEL_STOP_INTERVAL_MILES)
        total_on_duty_hours == driving_hours + 2 * PICKUP_DROPOFF_TIME
        breaks_needed == breaks_needed_for(driving_hours)
        total_duty_hours == total_on_duty_hours + num_fuel_stops * FUEL_STOP_DURATION
    IN  IF single_day_possible(driving_hours, total_duty_hours, current_cycle_hours)
          THEN generate_single_day_trip(distance_miles, driving_hours, total_duty_hours,
                                        num_fuel_stops, breaks_needed, today)
          ELSE generate_multi_day_trip(distance_miles, driving_hours, today)

\* ---------------------------------------------------- compliance checker
MsgDriving == "Exceeds 11-hour driving limit"
MsgWindow == "Exceeds 14-hour driving window"
MsgBreak == "Missing required 30-minute break after 8 hours driving"
MsgOk == "Compliant with all HOS regulations"

Verdict(ok, message) == [ok |-> ok, message |-> message]

\* Mutant: exactly 11 hours of driving already fails.
exceeds_driving_limit_at(totals) == totals.driving >= Num(MAX_DRIVING_HOURS)

\* `totals["driving"] > self.MAX_DRIVING_HOURS`
exceeds_driving_limit(totals) == totals.driving > Num(MAX_DRIVING_HOURS)

\* `total_duty > self.MAX_DRIVING_WINDOW`
exceeds_driving_window(totals) ==
    totals.driving + totals.on_duty > Num(MAX_DRIVING_WINDOW)

\* `cumulative_driving > self.BREAK_REQUIRED_AFTER_DRIVING and not had_break`
break_missing(cumulative_driving, had_break) ==
    cumulative_driving > Num(BREAK_REQUIRED_AFTER_DRIVING) /\ ~had_break

\* Mutant: a short non-driving entry clears the flag.
had_break_cleared(entry, had_break) == entry.duration >= MIN_BREAK_DURATION

\* had_break after a non-driving entry of a known status
had_break_after(entry, had_break) ==
    IF entry.duration >= MIN_BREAK_DURATION THEN TRUE ELSE had_break

RECURSIVE BreakScan(_, _, _, _)
\* The for loop of check_compliance from entry i on.
BreakScan(timeline, i, cumulative_driving, had_break) ==
    IF i > Len(timeline) THEN Verdict(TRUE, MsgOk)
    ELSE LET entry == timeline[i] IN
         IF entry.status = "DRIVING"
           THEN LET cum == cumulative_driving + entry.duration IN
                IF break_missing(cum, had_break)
                  THEN Verdict(FALSE, MsgBreak)
                  ELSE BreakScan(timeline, i + 1, cum, had_break)
         ELSE IF entry.status \in {"ON_DUTY", "OFF_DUTY", "SLEEPER_BERTH"}
           THEN BreakScan(timeline, i + 1, cumulative_driving,
                          had_break_after(entry, had_break))
         ELSE BreakScan(timeline, i + 1, cumulative_driving, had_break)

\* Mutant: a qualifying break anywhere in the timeline sets the flag before
\* the scan starts, so it also covers driving that precedes it.
check_compliance_retroactive(timeline) ==
    LET totals == calculate_daily_totals(timeline)
        any_break == \E k \in 1..Len(timeline) :
                        /\ timeline[k].status \in {"ON_DUTY", "OFF_DUTY", "SLEEPER_BERTH"}
                        /\ timeline[k].duration >= MIN_BREAK_DURATION
    IN  IF exceeds_driving_limit(totals) THEN Verdict(FALSE, MsgDriving)
        ELSE IF exceeds_driving_window(totals) THEN Verdict(FALSE, MsgWindow)
        ELSE BreakScan(timeline, 1, 0, any_break)

check_compliance(timeline) ==
    LET totals == calculate_daily_totals(timeline)
    IN  IF exceeds_driving_limit(totals) THEN Verdict(FALSE, MsgDriving)
        ELSE IF exceeds_driving_window(totals) THEN Verdict(FALSE, MsgWindow)
        ELSE BreakScan(timeline, 1, 0, FALSE)

\* --------------------------------------------- calls that may not return
NoResult == [num_days |-> 0]
NoRoute == [found |-> FALSE]

\* How a call ended: it returned a plan, it raised, or (TripViewSet.create) it
\* answered with a Response.
Returned(plan) ==
    [kind |-> "returned", status |-> 0, error |-> "", plan |-> plan, route |-> NoRoute]
Raised(error) ==
    [kind |-> "raised", status |-> 0, error |-> error, plan |-> NoResult, route |-> NoRoute]
Response(status, error, plan, route) ==
    [kind |-> "response", status |-> status, error |-> error, plan |-> plan, route |-> route]

\* calculate_trip on arguments nobody validated.  `distance_miles / days_needed`
\* raises ZeroDivisionError when the multi-day builder computes 0 days.
calculate_trip_call(distance_miles, current_cycle_hours, today) ==
    LET driving_hours == distance_miles \div AVERAGE_SPEED_MPH
        num_fuel_stops == distance_miles \div Num(FUEL_STOP_INTERVAL_MILES)
        total_duty_hours == driving_hours + 2 * PICKUP_DROPOFF_TIME
                            + num_fuel_stops * FUEL_STOP_DURATION
    IN  IF /\ ~single_day_possible(driving_hours, total_duty_hours, current_cycle_hours)
           /\ days_needed_for(driving_hours) = 0
          THEN Raised("ZeroDivisionError")
          ELSE Returned(calculate_trip(distance_miles, current_cycle_hours, today))

\* ------------------------------------------------------ distance provider
ESTIMATED_DISTANCE == 400

Route(distance_miles, estimated) ==
    [found |-> TRUE, distance_miles |-> distance_miles, estimated |-> estimated]

\* RoutingService._estimate_route
estimate_route == Route(Num(ESTIMATED_DISTANCE), TRUE)

\* RoutingService.calculate_route: what OSRM answers, in miles, or None.
calculate_route(world) == world.route

\* Mutant: the estimate is used only when no location at all could be geocoded.
geocoding_failed_for_all(geocode) == \A i \in 1..3 : ~geocode[i]

\* `not all([current_coords, pickup_coords, dropoff_coords])`
geocoding_failed(geocode) == \E i \in 1..3 : ~geocode[i]

\* RoutingService.get_route_for_trip
get_route_for_trip(world) ==
    IF geocoding_failed(world.geocode) THEN estimate_route ELSE calculate_route(world)

\* ------------------------------------------------------------ request path
\* TripCreateSerializer.is_valid: CharField rejects a blank string,
\* FloatField(min_value=0, max_value=70) a value outside the range.
is_valid(locations, current_cycle_hours) ==
    /\ \A i \in 1..3 : locations[i] # ""
    /\ current_cycle_hours >= 0
    /\ current_cycle_hours <= Num(MAX_CYCLE_HOURS)

\* TripViewSet.create, up to its Response (the two objects.create calls store
\* the plan and change nothing in it).
create(locations, current_cycle_hours, world, today) ==
    IF ~is_valid(locations, current_cycle_hours)
      THEN Response(400, "serializer.errors", NoResult, NoRoute)
    ELSE LET route_data == get_route_for_trip(world) IN
         IF ~route_data.found
           THEN Response(400, "Could not calculate route. Please check location names.",
                         NoResult, NoRoute)
         ELSE LET call == calculate_trip_call(route_data.distance_miles,
                                              current_cycle_hours, today) IN
              IF call.kind = "raised" THEN call
              ELSE Response(201, "", call.plan, route_data)

\* ------------------------------------------------------------------ state
VARIABLES
    pc,                   \* "request" -> "planned" -> "checked";
                          \* "timeline" -> "checked" | "aggregated";
                          \* "call" -> "called"; "http" -> "responded"
    distance_miles,       \* argument of calculate_trip (fixed point), 0 if none
    current_cycle_hours,  \* HOSCalculator.current_cycle_hours (fixed point)
    result,               \* what calculate_trip returned, NoResult before
    timeline,             \* the timeline handed to check_compliance
    verdict,              \* what check_compliance returned, NoVerdict before
    totals,               \* what _calculate_daily_totals returned, NoTotals before
    locations,            \* << current, pickup, dropoff >> location names
    world,                \* what the geocoder and the router answer
    outcome               \* how an unvalidated call or a request ended

vars == << pc, distance_miles, current_cycle_hours, result, timeline, verdict,
           totals, locations, world, outcome >>

NoTotals == [returned |-> FALSE]
NoOutcome == [kind |-> "none"]
NoWorld == [geocode |-> << TRUE, TRUE, TRUE >>, route |-> NoRoute]
NoVerdict == [ok |-> FALSE, message |-> "none"]

\* The day datetime.now() reports; dates are day offsets from it.
Today == 0

Distances == { Num(k * DistStep) : k \in 1..MaxDistSteps }
CycleHours == { Num(k * CycleStep) : k \in 0..(MAX_CYCLE_HOURS \div CycleStep) }

\* Durations of the segments of hand-built timelines: 15 min (too short to be
\* a break), 30 min, 3 h, 8 h, 9 h.
Durations == { Quarter, Half, Num(3), Num(8), Num(9) }

HandEntries == { [status |-> s, start_hour |-> 0, end_hour |-> d,
                  duration |-> d, description |-> "hand-built"] :
                 s \in Statuses, d \in Durations }

HandTimelines == UNION { [1..n -> HandEntries] : n \in 0..MaxLen }

\* Entries whose status is none of the four, and the timelines of at most
\* MaxUnknownLen entries that hold one.
UnknownEntries == { [status |-> "PERSONAL_CONVEYANCE", start_hour |-> 0, end_hour |-> d,
                     duration |-> d, description |-> "hand-built"] : d \in Durations }

UnknownTimelines ==
    { t \in UNION { [1..n -> HandEntries \cup UnknownEntries] : n \in 1..MaxUnknownLen } :
        \E i \in DOMAIN t : t[i].status \notin Statuses }

\* Location names: blank or not.
Names == { "", "Richmond, VA" }
ValidLocations == << "Richmond, VA", "Richmond, VA", "Richmond, VA" >>

\* Arguments and request fields nobody has validated yet.
RawDistances == { Num(0 - DistStep), 0, Num(DistStep), Num(ESTIMATED_DISTANCE) }
RawCycleHours == { Num(0 - CycleStep), 0, Num(MAX_CYCLE_HOURS - CycleStep),
                   Num(MAX_CYCLE_HOURS), Num(MAX_CYCLE_HOURS + CycleStep) }

\* The geocoder finds each location or not; the router fails or reports a
\* distance, which is 0 when the three locations coincide.
Worlds == [ geocode : [1..3 -> BOOLEAN],
            route : { NoRoute } \cup
                    { Route(d, FALSE) : d \in { 0, Num(DistStep), Num(DistStep * MaxDistSteps) } } ]

Init ==
    /\ result = NoResult
    /\ verdict = NoVerdict
    /\ totals = NoTotals
    /\ outcome = NoOutcome
    /\ \/ /\ pc = "request"
          /\ distance_miles \in Distances
          /\ current_cycle_hours \in CycleHours
          /\ timeline = << >>
          /\ locations = ValidLocations
          /\ world = NoWorld
       \/ /\ pc = "timeline"
          /\ distance_miles = 0
          /\ current_cycle_hours = 0
          /\ timeline \in HandTimelines \cup UnknownTimelines
          /\ locations = ValidLocations
          /\ world = NoWorld
       \/ /\ pc = "call"
          /\ distance_miles \in RawDistances
          /\ current_cycle_hours \in RawCycleHours
          /\ timeline = << >>
          /\ locations \in [1..3 -> Names]
          /\ world = NoWorld
       \/ /\ pc = "http"
          /\ distance_miles = 0
          /\ current_cycle_hours \in RawCycleHours
          /\ timeline = << >>
          /\ locations \in [1..3 -> Names]
          /\ world \in Worlds

\* HOSCalculator(current_cycle_hours).calculate_trip(distance_miles, ...)
CalculateTrip ==
    /\ pc = "request"
    /\ result' = calculate_trip(distance_miles, current_cycle_hours, Today)
    /\ pc' = "planned"
    /\ UNCHANGED << distance_miles, current_cycle_hours, timeline, verdict,
                    totals, locations, world, outcome >>

\* A caller re-verifies one day of the returned plan with check_compliance.
CheckPlanDay ==
    /\ pc = "planned"
    /\ \E i \in 1..Len(result.log_sheets) :
          /\ timeline' = result.log_sheets[i].timeline
          /\ verdict' = check_compliance(result.log_sheets[i].timeline)
    /\ pc' = "checked"
    /\ UNCHANGED << distance_miles, current_cycle_hours, result,
                    totals, locations, world, outcome >>

\* check_compliance on a timeline the caller built itself.
CheckCompliance ==
    /\ pc = "timeline"
    /\ verdict' = check_compliance(timeline)
    /\ pc' = "checked"
    /\ UNCHANGED << distance_miles, current_cycle_hours, result, timeline,
                    totals, locations, world, outcome >>

\* _calculate_daily_totals on a timeline the caller built itself.
AggregateTotals ==
    /\ pc = "timeline"
    /\ totals' = calculate_daily_totals(timeline)
    /\ pc' = "aggregated"
    /\ UNCHANGED << distance_miles, current_cycle_hours, result, timeline, verdict,
                    locations, world, outcome >>

\* calculate_trip called directly, with whatever arguments the caller has.
CallCalculateTrip ==
    /\ pc = "call"
    /\ outcome' = calculate_trip_call(distance_miles, current_cycle_hours, Today)
    /\ pc' = "called"
    /\ UNCHANGED << distance_miles, current_cycle_hours, result, timeline, verdict,
                    totals, locations, world >>

\* POST /api/trips/
Create ==
    /\ pc = "http"
    /\ outcome' = create(locations, current_cycle_hours, world, Today)
    /\ pc' = "responded"
    /\ UNCHANGED << distance_miles, current_cycle_hours, result, timeline, verdict,
                    totals, locations, world >>

Next ==
    \/ CalculateTrip \/ CheckPlanDay \/ CheckCompliance
    \/ AggregateTotals \/ CallCalculateTrip \/ Create

Spec == Init /\ [][Next]_vars

\* ================================================================ claims
HasPlan == result # NoResult
IsSingleDay == HasPlan /\ result.compliance_notes = "Trip complies with all HOS regulations"
IsMultiDay == HasPlan /\ result.compliance_notes = "Multi-day trip - days required for HOS compliance"
Sheets == IF HasPlan THEN result.log_sheets ELSE << >>
Days == DOMAIN Sheets

\* Whole miles and whole hours of the inputs.
Miles == distance_miles \div Scale
Cycle == current_cycle_hours \div Scale

RECURSIVE SumDur(_, _)
\* Sum of the durations of the entries of tl whose status is s.
SumDur(tl, s) ==
    IF tl = << >> THEN 0
    ELSE (IF Head(tl).status = s THEN Head(tl).duration ELSE 0) + SumDur(Tail(tl), s)

\* Driving time in entries i..j of tl.
DrivingIn(tl, i, j) == SumDur(SubSeq(tl, i, j), "DRIVING")

Partitions24(tl) ==
    /\ Len(tl) > 0
    /\ tl[1].start_hour = 0
    /\ tl[Len(tl)].end_hour = Num(24)
    /\ \A i \in 2..Len(tl) : tl[i].start_hour = tl[i - 1].end_hour
    /\ \A i \in 1..Len(tl) : /\ tl[i].start_hour < tl[i].end_hour
                             /\ tl[i].duration = tl[i].end_hour - tl[i].start_hour

\* C1: every day timeline of a returned plan partitions [0,24]: it starts at
\* 0, ends at 24, each entry starts where the previous one ends, and every
\* entry has start_hour < end_hour and duration = end_hour - start_hour.
C1_Coverage == \A d \in Days : Partitions24(Sheets[d].timeline)

\* C1 witness: a three-day plan and a checked day of it that is neither the
\* first nor the last.
C1_Witness ==
    /\ IsMultiDay /\ result.num_days = 3
    /\ pc = "checked" /\ timeline = Sheets[2].timeline
    /\ Partitions24(timeline)

\* C2: the stored totals of every day equal the per-status sums of that
\* day's entry durations, and the four totals add up to 24 hours.
C2_Totals ==
    \A d \in Days :
        LET tl == Sheets[d].timeline
            t == Sheets[d].totals
        IN  /\ t.off_duty = SumDur(tl, "OFF_DUTY")
            /\ t.sleeper_berth = SumDur(tl, "SLEEPER_BERTH")
            /\ t.driving = SumDur(tl, "DRIVING")
            /\ t.on_duty = SumDur(tl, "ON_DUTY")
            /\ t.off_duty + t.sleeper_berth + t.driving + t.on_duty = Num(24)

\* C2 witness: a single-day plan with a break, so on-duty time is spread
\* over five entries and driving over three.
C2_Witness ==
    /\ IsSingleDay /\ Len(Sheets[1].timeline) = 10
    /\ Sheets[1].totals.on_duty = Num(3) + Half
    /\ Sheets[1].totals.driving = distance_miles \div AVERAGE_SPEED_MPH

\* C3: every single-day plan is within the window limits: the day's driving
\* is <= 11 hours, its driving + on-duty is <= 14 hours, and check_compliance
\* on its timeline reports neither failure.
C3_SingleDayWithinLimits ==
    IsSingleDay =>
        LET tl == Sheets[1].timeline IN
        /\ SumDur(tl, "DRIVING") <= Num(MAX_DRIVING_HOURS)
        /\ SumDur(tl, "DRIVING") + SumDur(tl, "ON_DUTY") <= Num(MAX_DRIVING_WINDOW)
        /\ pc = "checked" => verdict.message \notin {MsgDriving, MsgWindow}

\* C4: every day of every multi-day plan is within the window limits:
\* driving <= 11 hours and driving + on-duty <= 14 hours.
C4_MultiDayWithinLimits ==
    IsMultiDay =>
        \A d \in Days :
            LET tl == Sheets[d].timeline IN
            /\ SumDur(tl, "DRIVING") <= Num(MAX_DRIVING_HOURS)
            /\ SumDur(tl, "DRIVING") + SumDur(tl, "ON_DUTY") <= Num(MAX_DRIVING_WINDOW)

\* C4 witness: a plan of at least two days whose days each carry the full 11
\* hours of the even split; its first day has the extra drive and loading.
C4_Witness ==
    /\ IsMultiDay /\ result.num_days >= 2
    /\ Sheets[1].total_miles = Num(MAX_DRIVING_HOURS * AVERAGE_SPEED_MPH)
    /\ Len(Sheets[1].timeline) = 8
    /\ Len(Sheets[result.num_days].timeline) = 7

\* Projected duty time in minutes for a trip of m whole miles at 60 mph:
\* m minutes of driving, 120 of pickup and dropoff, 30 per fuel stop.
DutyMinutes(m) == m + 120 + 30 * (m \div 1000)

\* C5: calculate_trip returns the single-day plan (num_days = 1, one log
\* sheet) exactly when drivingHours <= 11, totalDutyHours <= 14 and
\* currentCycleHours + totalDutyHours <= 70, and the multi-day plan
\* otherwise; 600 miles with 0 cycle hours is single-day, 700 miles is
\* multi-day with 2 days.
C5_Dispatch ==
    HasPlan =>
        /\ IsSingleDay <=> /\ Miles <= 660
                           /\ DutyMinutes(Miles) <= 840
                           /\ 60 * Cycle + DutyMinutes(Miles) <= 4200
        /\ IsSingleDay \/ IsMultiDay
        /\ IsSingleDay => result.num_days = 1 /\ Len(Sheets) = 1
        /\ (Miles = 600 /\ Cycle = 0) => IsSingleDay
        /\ Miles = 700 => IsMultiDay /\ result.num_days = 2

\* C5 witness: a trip within the 11- and 14-hour limits that goes to the
\* multi-day builder because of the cycle hours alone, one hour past the
\* largest cycle value that still gives a single day.
C5_Witness ==
    /\ IsMultiDay
    /\ Miles <= 660 /\ DutyMinutes(Miles) <= 840
    /\ 60 * Cycle + DutyMinutes(Miles) > 4200
    /\ 60 * (Cycle - CycleStep) + DutyMinutes(Miles) <= 4200

\* C6: a multi-day plan has num_days = ceil(drivingHours / 11) log sheets,
\* numbered 1..num_days in order, the date of day i being the base date plus
\* i - 1 days; 1200 miles give 2 days and 1800 miles give 3.
C6_DayCount ==
    IsMultiDay =>
        /\ (result.num_days - 1) * 660 < Miles
        /\ Miles <= result.num_days * 660
        /\ Len(Sheets) = result.num_days
        /\ \A i \in Days : /\ Sheets[i].day_number = i
                           /\ Sheets[i].date = Today + (i - 1)
        /\ Miles = 1200 => result.num_days = 2
        /\ Miles = 1800 => result.num_days = 3

\* C6 witness: the three-day plan of 1800 miles.
C6_Witness ==
    /\ IsMultiDay /\ Miles = 1800 /\ Len(Sheets) = 3
    /\ Sheets[3].day_number = 3 /\ Sheets[3].date = Today + 2

\* A half-hour ON_DUTY entry of tl directly between two DRIVING entries.
BreakBetweenDrives(tl) ==
    \E i \in 2..(Len(tl) - 1) :
        /\ tl[i].status = "ON_DUTY" /\ tl[i].duration = Half
        /\ tl[i - 1].status = "DRIVING" /\ tl[i + 1].status = "DRIVING"

\* No stretch i..j of tl without a non-driving entry of half an hour or more
\* holds over 8 hours of driving.
NoLongDrivingRun(tl) ==
    \A i \in 1..Len(tl) : \A j \in i..Len(tl) :
        (\A k \in i..j : tl[k].status = "DRIVING" \/ tl[k].duration < Half)
            => DrivingIn(tl, i, j) <= Num(8)

\* C7: a single-day plan with more than 8 driving hours holds a half-hour
\* ON_DUTY entry directly between two DRIVING entries, and no day timeline of
\* any plan drives more than 8 hours without a non-driving entry of >= 0.5h.
C7_BreakInsertion ==
    /\ (IsSingleDay /\ Miles > 480) => BreakBetweenDrives(Sheets[1].timeline)
    /\ \A d \in Days : NoLongDrivingRun(Sheets[d].timeline)

\* C7 witness: the 550-mile single-day plan, with its break.
C7_Witness ==
    /\ IsSingleDay /\ Miles = 550
    /\ BreakBetweenDrives(Sheets[1].timeline)
    /\ Sheets[1].timeline[6].description = "Fuel stop (30-min break)"

\* A caller's own timeline has been checked.
HandChecked == pc = "checked" /\ ~HasPlan

Driving == SumDur(timeline, "DRIVING")
OnDuty == SumDur(timeline, "ON_DUTY")
WithinLimits == Driving <= Num(11) /\ Driving + OnDuty <= Num(14)

\* C8: check_compliance fails with the 11-hour message whenever driving
\* exceeds 11 hours, else with the 14-hour message whenever driving + on-duty
\* exceeds 14 hours; exactly 11 and exactly 14 trigger neither, and off-duty
\* and sleeper-berth time count toward neither.
C8_LimitChecks ==
    pc = "checked" =>
        /\ Driving > Num(11) => verdict = Verdict(FALSE, MsgDriving)
        /\ (Driving <= Num(11) /\ Driving + OnDuty > Num(14))
              => verdict = Verdict(FALSE, MsgWindow)
        /\ WithinLimits => verdict.message \notin {MsgDriving, MsgWindow}

\* C8 witness: exactly 11 hours of driving and exactly 14 of duty pass both
\* limit checks.
C8_Witness ==
    /\ HandChecked /\ Driving = Num(11) /\ Driving + OnDuty = Num(14)
    /\ verdict.message \notin {MsgDriving, MsgWindow}

IsBreak(e) ==
    e.status \in {"ON_DUTY", "OFF_DUTY", "SLEEPER_BERTH"} /\ e.duration >= Half

\* Entry i of tl is a DRIVING entry at which cumulative driving exceeds 8 hours.
Over8At(tl, i) == tl[i].status = "DRIVING" /\ DrivingIn(tl, 1, i) > Num(8)

\* Some DRIVING entry takes cumulative driving over 8 hours with no break
\* before it.
UncoveredDriving(tl) ==
    \E i \in 1..Len(tl) :
        /\ Over8At(tl, i)
        /\ ~ \E j \in 1..(i - 1) : IsBreak(tl[j])

\* C9: a timeline within the 11- and 14-hour limits is rejected for a
\* missing break exactly when some DRIVING entry takes cumulative driving
\* over 8 hours with no non-driving entry of >= 0.5h before it; otherwise it
\* is accepted.
C9_BreakCheck ==
    (pc = "checked" /\ WithinLimits) =>
        IF UncoveredDriving(timeline)
          THEN verdict = Verdict(FALSE, MsgBreak)
          ELSE verdict = Verdict(TRUE, MsgOk)

\* C9 witness: a break, then an entry too short to be one, then 9 hours of
\* driving: the flag set by the first entry still holds and the timeline passes.
C9_Witness ==
    /\ HandChecked /\ Len(timeline) = 3
    /\ IsBreak(timeline[1])
    /\ timeline[2].status # "DRIVING" /\ ~IsBreak(timeline[2])
    /\ timeline[3].status = "DRIVING" /\ timeline[3].duration = Num(9)
    /\ verdict = Verdict(TRUE, MsgOk)

\* C10 as stated: a timeline within the limits that holds a qualifying break
\* at any position is not rejected for a missing break.
C10_RetroactiveBreak ==
    (pc = "checked" /\ WithinLimits /\ \E j \in 1..Len(timeline) : IsBreak(timeline[j]))
        => verdict.message # MsgBreak

\* C10 amended: a qualifying break covers only the driving after it.  Within
\* the limits, a timeline whose cumulative driving exceeds 8 hours at a DRIVING
\* entry that precedes its first qualifying break is rejected for a missing
\* break, and one whose first qualifying break precedes every such entry is not.
C10_BreakCoversLaterDriving ==
    (pc = "checked" /\ WithinLimits) =>
        \A j \in 1..Len(timeline) :
            (IsBreak(timeline[j]) /\ \A k \in 1..(j - 1) : ~IsBreak(timeline[k])) =>
                IF \E i \in 1..(j - 1) : Over8At(timeline, i)
                  THEN verdict = Verdict(FALSE, MsgBreak)
                  ELSE verdict.message # MsgBreak

\* C10 witness: 8 and 3 hours of driving followed by a half-hour break are
\* rejected for the missing break.
C10_Witness ==
    /\ HandChecked /\ Len(timeline) = 3
    /\ timeline[1].status = "DRIVING" /\ timeline[1].duration = Num(8)
    /\ timeline[2].status = "DRIVING" /\ timeline[2].duration = Num(3)
    /\ IsBreak(timeline[3])
    /\ verdict = Verdict(FALSE, MsgBreak)

RECURSIVE SumOverDays(_, _)
\* Sum over the first n days of the plan of the time spent in the statuses ss.
SumOverDays(n, ss) ==
    IF n = 0 THEN 0
    ELSE SumOverDays(n - 1, ss)
         + SumDur(Sheets[n].timeline, "DRIVING") * (IF "DRIVING" \in ss THEN 1 ELSE 0)
         + SumDur(Sheets[n].timeline, "ON_DUTY") * (IF "ON_DUTY" \in ss THEN 1 ELSE 0)

RECURSIVE SumMiles(_)
\* Sum of total_miles over the first n days of the plan.
SumMiles(n) == IF n = 0 THEN 0 ELSE SumMiles(n - 1) + Sheets[n].total_miles

\* C13: the plan's total_driving_hours is the driving time of all its days,
\* its total_on_duty_hours is the driving plus on-duty time of all its days,
\* and so total_on_duty_hours >= total_driving_hours.
C13_TripTotals ==
    HasPlan =>
        /\ result.total_driving_hours = SumOverDays(Len(Sheets), {"DRIVING"})
        /\ result.total_on_duty_hours = SumOverDays(Len(Sheets), {"DRIVING", "ON_DUTY"})
        /\ result.total_on_duty_hours >= result.total_driving_hours

\* C13 witness: a plan of three days, whose trip-level on-duty figure exceeds
\* the sum of the days' own on_duty totals by the driving time.
C13_Witness ==
    /\ IsMultiDay /\ result.num_days = 3
    /\ result.total_on_duty_hours
         = result.total_driving_hours + Sheets[1].totals.on_duty
           + Sheets[2].totals.on_duty + Sheets[3].totals.on_duty
    /\ result.total_driving_hours > 0

\* C15: a single-day plan keeps the driver within the cycle ceiling:
\* currentCycleHours + the plan's total_on_duty_hours <= 70.
C15_CycleCeiling ==
    IsSingleDay =>
        current_cycle_hours + result.total_on_duty_hours <= Num(MAX_CYCLE_HOURS)

\* C16: the driving scheduled covers the distance: each day's driving time
\* at 60 mph equals that day's total_miles, the days' total_miles add up to
\* total_distance_miles, and total_driving_hours = distanceMiles / 60.
C16_DrivingCoversDistance ==
    HasPlan =>
        /\ \A d \in Days :
              SumDur(Sheets[d].timeline, "DRIVING") * AVERAGE_SPEED_MPH
                 = Sheets[d].total_miles
        /\ SumMiles(Len(Sheets)) = result.total_distance_miles
        /\ result.total_driving_hours * AVERAGE_SPEED_MPH = distance_miles

\* C17: a trip that goes to the multi-day builder is split across at least
\* two days.
C17_MultiDaySplits == IsMultiDay => result.num_days >= 2

\* The arguments of the call, or the fields of the request, are not legal.
BlankLocation == \E i \in 1..3 : locations[i] = ""
CycleOutOfRange == current_cycle_hours < 0 \/ current_cycle_hours > Num(70)

\* The router was asked (every location geocoded) and answered.
Routed == (\A i \in 1..3 : world.geocode[i]) /\ world.route.found

\* C11: invalid input is rejected before scheduling.  A direct call with
\* distance <= 0, cycle hours outside [0,70] or a blank location name returns
\* no plan and does not fault on a division by zero; a request with such
\* fields, or whose routed distance is 0, is answered with an error and no plan.
C11_InvalidInputRejected ==
    /\ (pc = "called" /\ (distance_miles <= 0 \/ CycleOutOfRange \/ BlankLocation))
          => /\ outcome.kind = "raised"
             /\ outcome.error # "ZeroDivisionError"
    /\ (pc = "responded"
          /\ (BlankLocation \/ CycleOutOfRange
                \/ (Routed /\ world.route.distance_miles <= 0)))
          => /\ outcome.kind = "response"
             /\ outcome.status = 400
             /\ outcome.plan = NoResult

HasUnknownStatus(tl) == \E i \in DOMAIN tl : tl[i].status \notin Statuses

\* C12: the aggregator fails fast on an illegal status: given a timeline
\* with an entry whose status is none of the four, _calculate_daily_totals
\* returns no totals and check_compliance no verdict; for legal input each
\* duration is counted once, under its own status.
C12_UnknownStatusFailsFast ==
    /\ pc = "aggregated" =>
          IF HasUnknownStatus(timeline)
            THEN totals = NoTotals
            ELSE /\ totals.off_duty = SumDur(timeline, "OFF_DUTY")
                 /\ totals.sleeper_berth = SumDur(timeline, "SLEEPER_BERTH")
                 /\ totals.driving = SumDur(timeline, "DRIVING")
                 /\ totals.on_duty = SumDur(timeline, "ON_DUTY")
    /\ (pc = "checked" /\ HasUnknownStatus(timeline)) => verdict = NoVerdict

\* Some step of get_route_for_trip failed.
GeocodingFailed == \E i \in 1..3 : ~world.geocode[i]
RoutingFailed == (\A i \in 1..3 : world.geocode[i]) /\ ~world.route.found
ValidRequest == pc = "responded" /\ ~BlankLocation /\ ~CycleOutOfRange

\* The request was scheduled on the fixed 400-mile estimate.
ScheduledOnEstimate ==
    /\ outcome.kind = "response" /\ outcome.status = 201
    /\ outcome.route = Route(Num(400), TRUE)
    /\ outcome.plan.total_distance_miles = Num(400)

\* C14 as stated: whenever geocoding or the route calculation fails, the
\* distance provider returns the 400-mile estimate and create goes on to
\* schedule.
C14_FallbackOnAnyFailure ==
    (ValidRequest /\ (GeocodingFailed \/ RoutingFailed)) => ScheduledOnEstimate

\* C14 amended: the distance provider falls back to the 400-mile estimate
\* when the geocoding of any of the three locations fails, and create then
\* schedules; when the route calculation for geocoded waypoints fails it
\* returns no result and create answers 400 without a plan.
C14_FallbackOnGeocodingFailure ==
    /\ (ValidRequest /\ GeocodingFailed) => ScheduledOnEstimate
    /\ (ValidRequest /\ RoutingFailed)
          => /\ outcome.kind = "response" /\ outcome.status = 400
             /\ outcome.error = "Could not calculate route. Please check location names."
             /\ outcome.plan = NoResult

\* C14 witness: one location of three is not geocoded, the router would have
\* answered, and the request is scheduled on the estimate.
C14_Witness ==
    /\ ValidRequest
    /\ ~world.geocode[2] /\ world.geocode[1] /\ world.geocode[3]
    /\ world.route.found
    /\ ScheduledOnEstimate

====
